---- MODULE Spec2Model ----
(***************************************************************************)
(* Airline route calculator (src/app.py): the per-aircraft evaluation, the *)
(* table assembly through a CSV round trip, the star formatter, the        *)
(* selection filter and the session state kept across page re-renders.     *)
(*                                                                         *)
(* Numbers: a score is held in hundredths (4.5 stars is 450); ranges,      *)
(* distances, seat counts and frequencies are whole numbers.               *)
(* The generative service is an oracle: each call returns any response of  *)
(* a menu.  The memoisation of st.cache_data is not a separate state: the  *)
(* oracle is free to repeat an earlier answer.  The API key is taken as    *)
(* entered (is_gemini_ready holds), so the client is never None.           *)
(***************************************************************************)
EXTENDS Integers, Sequences, FiniteSets, TLC

VARIABLES
    iata_input,              \* widget "iata_input" (upper-cased on read)
    city_input,              \* widget "city_input"
    continent_select,        \* widget "continent_select"
    aircraft_select_current, \* widget "aircraft_select_current"
    data_consistent,         \* st.session_state.data_consistent
    distance_km,             \* st.session_state.distance_km
    evaluation_df,           \* st.session_state.evaluation_df (NoTable = None)
    selected_aircraft,       \* st.session_state.selected_aircraft (NoCell = None)
    pc,                      \* position of the running script ("idle": waiting)
    event,                   \* what triggered the running script
    distance,                \* the script's local variable distance
    all_data_rows,           \* get_aircraft_evaluation: the rows built so far
    csv_result,              \* what get_aircraft_evaluation returned
    display,                 \* the formatted star column of the rendered table
    available_aircraft,      \* the selection list of the rendered page
    render_error,            \* the exception that ended the script, if any
    oracle_log,              \* every per-aircraft oracle call and its response
    eval_query               \* the arguments of the call that built evaluation_df

vars == <<iata_input, city_input, continent_select, aircraft_select_current,
          data_consistent, distance_km, evaluation_df, selected_aircraft,
          pc, event, distance, all_data_rows, csv_result, display,
          available_aircraft, render_error, oracle_log, eval_query>>

---------------------------------------------------------------------------
(* Bounds of the model *)

\* distances tried: every catalog range r, and r+1 .. r+DistanceSlack
DistanceSlack == 1
\* at most this many oracle responses of one table build differ from the
\* nominal well-formed record
MaxDeviations == 2
\* the star formatter is tried on every score 0.00 .. MaxScore.99
MaxScore == 5

---------------------------------------------------------------------------
(* Values: a cell is a Python / pandas scalar *)

IntCell(n)    == [kind |-> "int",    num |-> n, txt |-> ""]
FloatCell(h)  == [kind |-> "float",  num |-> h, txt |-> ""]   \* h hundredths
StrCell(s)    == [kind |-> "str",    num |-> 0, txt |-> s]
\* a str that spells the number h/100, such as "4.5"
NumStrCell(h) == [kind |-> "numstr", num |-> h, txt |-> ""]
NoneCell      == [kind |-> "none",   num |-> 0, txt |-> ""]   \* None / JSON null
NaNCell       == [kind |-> "nan",    num |-> 0, txt |-> ""]   \* pandas missing

\* the value of a numeric cell in hundredths
Hundredths(c) == IF c.kind = "int" THEN c.num * 100 ELSE c.num

NA == "N/A"

---------------------------------------------------------------------------
(* 1. Constants *)

aircraft_models ==
    <<"A320neo", "A321neo", "A350-900", "A350-900ULR", "B787-8", "B787-9",
      "B777-300ER">>

AIRCRAFT_DATA ==
    [m \in {aircraft_models[i] : i \in 1..Len(aircraft_models)} |->
       CASE m = "A320neo"     -> [seats |-> "156/8/0",   fuel_cost |-> 708,  range_km |-> 6300]
         [] m = "A321neo"     -> [seats |-> "162/12/0",  fuel_cost |-> 840,  range_km |-> 7400]
         [] m = "A350-900"    -> [seats |-> "288/40/0",  fuel_cost |-> 1950, range_km |-> 15000]
         [] m = "A350-900ULR" -> [seats |-> "133/48/8",  fuel_cost |-> 2095, range_km |-> 18000]
         [] m = "B787-8"      -> [seats |-> "261/30/0",  fuel_cost |-> 1370, range_km |-> 13500]
         [] m = "B787-9"      -> [seats |-> "297/36/0",  fuel_cost |-> 1650, range_km |-> 14000]
         [] m = "B777-300ER"  -> [seats |-> "315/40/8",  fuel_cost |-> 2080, range_km |-> 13650]]

Ranges == {AIRCRAFT_DATA[aircraft_models[i]].range_km : i \in 1..Len(aircraft_models)}

\* the number of columns the page accepts
TableColumns == 11

---------------------------------------------------------------------------
(* The oracle's responses to one per-aircraft request *)

ListResponse(items) == [kind |-> "list",      items |-> items]
ObjectResponse      == [kind |-> "object",    items |-> <<>>]  \* JSON object: has a len
NumberResponse      == [kind |-> "number",    items |-> <<>>]  \* JSON number: no len
NotJsonResponse     == [kind |-> "not_json",  items |-> <<>>]  \* json.loads raises
ApiErrorResponse    == [kind |-> "api_error", items |-> <<>>]  \* generate_content raises

\* a well-formed answer: the 11 fields of the prompt, with the given score cell
WellFormed(model, score) ==
    <<StrCell(model), IntCell(AIRCRAFT_DATA[model].range_km),
      StrCell(AIRCRAFT_DATA[model].seats), IntCell(AIRCRAFT_DATA[model].fuel_cost),
      StrCell("300/20/0"), StrCell("290/18/0"), IntCell(7),
      StrCell("08:00"), StrCell("21:00"), score, StrCell("rationale")>>

Nominal(model) == ListResponse(WellFormed(model, FloatCell(450)))

\* the answers that differ from the nominal one
Deviations(model) ==
    {ListResponse(WellFormed(model, s)) :
        s \in {FloatCell(0), FloatCell(200), StrCell("high"), NoneCell}}
    \cup {ListResponse([WellFormed(model, FloatCell(450)) EXCEPT ![1] = StrCell("A380")]),
          ListResponse(Tail(WellFormed(model, FloatCell(450)))),
          ObjectResponse, NumberResponse, NotJsonResponse, ApiErrorResponse}

---------------------------------------------------------------------------
(* 4. generate_aircraft_data *)

UnreachableRecord(model) ==
    <<StrCell(model), IntCell(AIRCRAFT_DATA[model].range_km),
      StrCell(AIRCRAFT_DATA[model].seats), IntCell(AIRCRAFT_DATA[model].fuel_cost),
      StrCell("N/A/N/A"), StrCell("N/A/N/A"), IntCell(0), StrCell(NA), StrCell(NA),
      FloatCell(0), StrCell("range_insufficient")>>

\* [aircraft_model] + ["N/A"] * 9 + [1.0] + [diagnostic]
FallbackRecord(model, diagnostic) ==
    <<StrCell(model)>> \o [i \in 1..9 |-> StrCell(NA)]
        \o <<FloatCell(100)>> \o <<StrCell(diagnostic)>>

\* faulty variant: the range test with the boundary on the wrong side
UnreachableAtEquality(model, dist) == dist >= AIRCRAFT_DATA[model].range_km

\* the range test that skips the oracle
Unreachable(model, dist) == dist > AIRCRAFT_DATA[model].range_km

\* the body of the try block, given the oracle's response
FromResponse(model, resp) ==
    CASE resp.kind = "list" ->
           IF Len(resp.items) = 11 THEN resp.items
           ELSE FallbackRecord(model, "structure_incorrect")
      [] resp.kind = "object"    -> FallbackRecord(model, "structure_incorrect")
      [] resp.kind = "number"    -> FallbackRecord(model, "api_call_error")
      [] resp.kind = "not_json"  -> FallbackRecord(model, "api_call_error")
      [] resp.kind = "api_error" -> FallbackRecord(model, "api_call_error")

generate_aircraft_data(model, dist, resp) ==
    IF Unreachable(model, dist) THEN UnreachableRecord(model)
    ELSE FromResponse(model, resp)

---------------------------------------------------------------------------
(* pd.DataFrame(all_data_rows).to_csv, and pd.read_csv of the text *)

Max(S) == CHOOSE x \in S : \A y \in S : y <= x

\* the number of columns of the frame: the longest row
FrameWidth(rows) == Max({Len(rows[i]) : i \in 1..Len(rows)})

\* pd.DataFrame pads the shorter rows with missing values
DataFrame(rows) ==
    [i \in 1..Len(rows) |->
        [j \in 1..FrameWidth(rows) |->
            IF j <= Len(rows[i]) THEN rows[i][j] ELSE NoneCell]]

EmptyField == [kind |-> "empty", num |-> 0, txt |-> ""]

\* the text of one cell in the CSV: the type of the cell is not written
CsvField(c) ==
    CASE c.kind = "int"    -> IntCell(c.num)
      [] c.kind = "float"  -> FloatCell(c.num)
      [] c.kind = "numstr" -> FloatCell(c.num)
      [] c.kind = "str"    -> IF c.txt = "" THEN EmptyField ELSE StrCell(c.txt)
      [] c.kind = "none"   -> EmptyField
      [] c.kind = "nan"    -> EmptyField

to_csv(frame) ==
    [i \in 1..Len(frame) |-> [j \in 1..Len(frame[i]) |-> CsvField(frame[i][j])]]

\* the texts read_csv reads as a missing value (pandas' default na_values)
NAStrings == {"", "N/A", "NA", "n/a", "NaN", "nan", "null", "NULL", "None", "#N/A"}

IsNAField(f) == f.kind = "empty" \/ (f.kind = "str" /\ f.txt \in NAStrings)

IsNumericField(f) == f.kind \in {"int", "float"}

\* the dtype read_csv infers for column j
ColumnKind(csv, j) ==
    LET col == {csv[i][j] : i \in 1..Len(csv)} IN
    IF \A f \in col : f.kind = "int" THEN "int"
    ELSE IF \A f \in col : IsNAField(f) \/ IsNumericField(f) THEN "float"
    ELSE "object"

ReadField(f, colkind) ==
    CASE colkind = "int"    -> IntCell(f.num)
      [] colkind = "float"  -> IF IsNAField(f) THEN NaNCell
                               ELSE FloatCell(Hundredths(f))
      [] colkind = "object" -> IF IsNAField(f) THEN NaNCell
                               ELSE IF IsNumericField(f) THEN NumStrCell(Hundredths(f))
                               ELSE StrCell(f.txt)

read_csv(csv) ==
    [i \in 1..Len(csv) |->
        [j \in 1..Len(csv[i]) |-> ReadField(csv[i][j], ColumnKind(csv, j))]]

\* df.shape[1]
Shape1(df) == Len(df[1])

NoTable == <<>>

\* column positions of the accepted table
IdCol == 1
ScoreCol == 10

---------------------------------------------------------------------------
(* format_star, applied to the score column after .astype(str) *)

\* Series.astype(str): the text of a cell
AsStr(c) ==
    CASE c.kind = "int"    -> NumStrCell(c.num * 100)
      [] c.kind = "float"  -> NumStrCell(c.num)
      [] c.kind = "numstr" -> c
      [] c.kind = "str"    -> c
      [] c.kind = "nan"    -> StrCell("nan")
      [] c.kind = "none"   -> StrCell("None")

\* float(text): a number, nan, or ValueError
FloatOf(s) ==
    IF s.kind = "numstr" THEN [ok |-> TRUE, nan |-> FALSE, h |-> s.num]
    ELSE IF s.txt \in {"nan", "NaN"} THEN [ok |-> TRUE, nan |-> TRUE, h |-> 0]
    ELSE [ok |-> FALSE, nan |-> FALSE, h |-> 0]

\* int(score): truncation toward zero
IntTrunc(h) == IF h >= 0 THEN h \div 100 ELSE -((-h) \div 100)

\* the scores x.x5 below 7.00 whose double lies above the decimal tie, so that
\* f"{score:.1f}" shows the upper tenth (the others show the lower tenth)
TiesRoundedUp ==
    {5, 45, 55, 65, 75, 105, 135, 155, 175, 185, 235, 245, 275, 285, 295, 335,
     345, 375, 385, 395, 415, 445, 465, 475, 495, 515, 545, 565, 575, 595, 615,
     645, 665, 675, 695}

\* f"{score:.1f}", in tenths: the tenth nearest to the double
RoundTenths(h) ==
    LET q == h \div 10
        r == h % 10
    IN IF r < 5 THEN q
       ELSE IF r > 5 THEN q + 1
       ELSE IF h \in TiesRoundedUp THEN q + 1 ELSE q

Shown(kind, full, half, tenths) ==
    [kind |-> kind, full |-> full, half |-> half, tenths |-> tenths]

format_star(s) ==
    LET f == FloatOf(s) IN
    IF ~f.ok THEN Shown("N/A", 0, FALSE, 0)
    ELSE IF f.nan THEN Shown("raise", 0, FALSE, 0)      \* int(nan): ValueError
    ELSE IF f.h = 0 THEN Shown("unreachable", 0, FALSE, 0)
    ELSE LET full_stars == IntTrunc(f.h)
             frac == f.h - full_stars * 100
         IN Shown("stars", full_stars, frac >= 25 /\ frac < 75, RoundTenths(f.h))

\* display_df[...].astype(str).apply(format_star)
FormatColumn(df) == [i \in 1..Len(df) |-> format_star(AsStr(df[i][ScoreCol]))]

---------------------------------------------------------------------------
(* The selection filter *)

\* Series.astype(float) raises ValueError on a text that spells no number
AsTypeFloatRaises(df) == \E i \in 1..Len(df) : df[i][ScoreCol].kind = "str"

\* faulty variant: the comparison >= 0.0 in place of > 0.0
ScoreNotNegative(c) == c.kind \in {"int", "float", "numstr"} /\ Hundredths(c) >= 0

\* score > 0.0 of one cell (nan > 0.0 is False)
ScorePositive(c) == c.kind \in {"int", "float", "numstr"} /\ Hundredths(c) > 0

RECURSIVE SelectRows(_, _)
SelectRows(df, i) ==
    IF i > Len(df) THEN <<>>
    ELSE (IF ScorePositive(df[i][ScoreCol]) THEN <<df[i][IdCol]>> ELSE <<>>)
         \o SelectRows(df, i + 1)

AllIds(df) == [i \in 1..Len(df) |-> df[i][IdCol]]

available_aircraft_of(df) ==
    IF AsTypeFloatRaises(df) THEN AllIds(df) ELSE SelectRows(df, 1)

---------------------------------------------------------------------------
(* get_aircraft_evaluation: the loop over the catalog, one step per model *)

\* the oracle calls of the current build that did not return the nominal answer
DeviationsSoFar ==
    Cardinality({k \in 1..Len(oracle_log) :
                    oracle_log[k].resp # Nominal(oracle_log[k].model)})

widgets == <<iata_input, city_input, continent_select, aircraft_select_current>>
session == <<data_consistent, distance_km, evaluation_df, selected_aircraft>>
page    == <<display, available_aircraft, render_error>>

\* faulty variant: the row put in front of the rows built so far
PrependRow(rows, row) == <<row>> \o rows

\* lines 195-198: row = generate_aircraft_data(...); all_data_rows.append(row)
AppendRow(rows, row) == Append(rows, row)

\* dev[m]: the deviating answers the oracle may give for model m
EvalStep(dev, cap) ==
    /\ pc = "eval"
    /\ LET i     == Len(all_data_rows) + 1
           model == aircraft_models[i]
       IN /\ IF Unreachable(model, distance)
             THEN /\ all_data_rows' =
                        AppendRow(all_data_rows,
                                  generate_aircraft_data(model, distance, Nominal(model)))
                  /\ UNCHANGED oracle_log
             ELSE \E resp \in {Nominal(model)} \cup
                              (IF DeviationsSoFar < cap THEN dev[model] ELSE {}) :
                    /\ all_data_rows' =
                          AppendRow(all_data_rows,
                                    generate_aircraft_data(model, distance, resp))
                    /\ oracle_log' =
                          Append(oracle_log, [model |-> model, resp |-> resp])
          /\ pc' = IF i = Len(aircraft_models) THEN "eval_return" ELSE "eval"
    /\ UNCHANGED <<widgets, session, page, event, distance, csv_result, eval_query>>

\* lines 200-207: df = pd.DataFrame(all_data_rows); return df.to_csv(...)
get_aircraft_evaluation(rows) ==
    IF rows = <<>> THEN NoTable ELSE to_csv(DataFrame(rows))

EvalReturn ==
    /\ pc = "eval_return"
    /\ csv_result' = get_aircraft_evaluation(all_data_rows)
    /\ pc' = "read"
    /\ UNCHANGED <<widgets, session, page, event, distance, all_data_rows,
                   oracle_log, eval_query>>

---------------------------------------------------------------------------
(* The page: lines 306-324, the table is accepted or refused *)

\* csv_result.startswith("API_ERROR")
StartsWithApiError(csv) ==
    csv[1][1].kind = "str" /\ csv[1][1].txt = "API_ERROR"

\* the frame stored in the session, or NoTable when the page refuses it
AcceptedTable(csv) ==
    IF csv # NoTable /\ ~StartsWithApiError(csv)
    THEN LET df == read_csv(csv)
         IN IF Shape1(df) = TableColumns THEN df ELSE NoTable
    ELSE NoTable

ReadTable ==
    /\ pc = "read"
    /\ LET df == AcceptedTable(csv_result)
       IN IF df # NoTable
          THEN /\ evaluation_df' = df
               /\ eval_query' = [distance |-> distance, code |-> iata_input,
                                 city |-> city_input]
          ELSE UNCHANGED <<evaluation_df, eval_query>>
    /\ pc' = "render"
    /\ UNCHANGED <<widgets, data_consistent, distance_km, selected_aircraft, page,
                   event, distance, all_data_rows, csv_result, oracle_log>>

---------------------------------------------------------------------------
(* The page: lines 326-392, the table, the selection list and the confirm  *)
(* button; lines 402-441, the summary                                      *)

EmptyChoice == StrCell("")

\* options=[""] + available_aircraft
Options(avail) == {EmptyChoice} \cup {avail[i] : i \in 1..Len(avail)}

\* format_star raised on some row: the script run ends with the exception
FormatRaises(df) == \E i \in 1..Len(df) : FormatColumn(df)[i].kind = "raise"

Render ==
    /\ pc = "render"
    /\ IF evaluation_df = NoTable
       THEN /\ display' = <<>>
            /\ available_aircraft' = <<>>
            /\ aircraft_select_current' = EmptyChoice
            /\ pc' = "summary"
            /\ UNCHANGED <<render_error, selected_aircraft, event>>
       ELSE IF FormatRaises(evaluation_df)
       THEN /\ display' = <<>>
            /\ available_aircraft' = <<>>
            /\ aircraft_select_current' = EmptyChoice
            /\ render_error' = "ValueError"
            /\ pc' = "idle"
            /\ event' = "none"
            /\ UNCHANGED selected_aircraft
       ELSE LET avail == available_aircraft_of(evaluation_df)
                aircraft_selection ==
                    IF avail # <<>> /\ aircraft_select_current \in Options(avail)
                    THEN aircraft_select_current ELSE EmptyChoice
            IN /\ display' = FormatColumn(evaluation_df)
               /\ available_aircraft' = avail
               /\ aircraft_select_current' = aircraft_selection
               /\ UNCHANGED render_error
               /\ IF event = "confirm" /\ aircraft_selection # EmptyChoice
                  THEN /\ selected_aircraft' = aircraft_selection
                       /\ pc' = "check"            \* st.rerun()
                       /\ event' = "rerun"
                  ELSE /\ pc' = "summary"
                       /\ UNCHANGED <<selected_aircraft, event>>
    /\ UNCHANGED <<iata_input, city_input, continent_select, data_consistent,
                   distance_km, evaluation_df, distance, all_data_rows, csv_result,
                   oracle_log, eval_query>>

\* the end of the script run: its locals are dropped
Summary ==
    /\ pc = "summary"
    /\ pc' = "idle"
    /\ event' = "none"
    /\ distance' = 0
    /\ all_data_rows' = <<>>
    /\ csv_result' = NoTable
    /\ oracle_log' = <<>>
    /\ UNCHANGED <<widgets, session, page, eval_query>>

---------------------------------------------------------------------------
(* The page: lines 259-299, the check button and the distance *)

NoQuery == [distance |-> 0, code |-> "", city |-> ""]

ConsistencyResults == {"PASS", "FAIL", "API_ERROR", "OTHER"}

\* faulty variant: the check button's reset leaves selected_aircraft alone
ScriptCheckKeepsSelection ==
    /\ pc = "check"
    /\ IF event = "check"
       THEN /\ distance_km' = 0
            /\ evaluation_df' = NoTable
            /\ \E consistency_result \in ConsistencyResults :
                  data_consistent' = (consistency_result = "PASS")
            /\ eval_query' = NoQuery
            /\ UNCHANGED selected_aircraft
       ELSE UNCHANGED <<session, eval_query>>
    /\ pc' = "distance"
    /\ UNCHANGED <<widgets, page, event, distance, all_data_rows, csv_result,
                   oracle_log>>

ScriptCheck ==
    /\ pc = "check"
    /\ IF event = "check"
       THEN /\ distance_km' = 0
            /\ evaluation_df' = NoTable
            /\ selected_aircraft' = NoneCell
            /\ \E consistency_result \in ConsistencyResults :
                  data_consistent' = (consistency_result = "PASS")
            /\ eval_query' = NoQuery
       ELSE UNCHANGED <<session, eval_query>>
    /\ pc' = "distance"
    /\ UNCHANGED <<widgets, page, event, distance, all_data_rows, csv_result,
                   oracle_log>>

\* what get_flight_distance may return: 0 on failure, else the first number
\* of the oracle's text
DistanceAnswers == {0, 5000, 14500}

ScriptDistance ==
    /\ pc = "distance"
    /\ IF ~data_consistent
       THEN /\ pc' = "summary"
            /\ display' = <<>>
            /\ available_aircraft' = <<>>
            /\ aircraft_select_current' = EmptyChoice
            /\ UNCHANGED <<distance, distance_km, render_error>>
       ELSE /\ IF distance_km = 0
               THEN \E d \in DistanceAnswers : distance' = d /\ distance_km' = d
               ELSE distance' = distance_km /\ UNCHANGED distance_km
            /\ IF distance' > 0
               THEN /\ pc' = IF evaluation_df = NoTable THEN "eval" ELSE "render"
                    /\ UNCHANGED <<page, aircraft_select_current>>
               ELSE /\ pc' = "summary"
                    /\ display' = <<>>
                    /\ available_aircraft' = <<>>
                    /\ aircraft_select_current' = EmptyChoice
                    /\ UNCHANGED render_error
    /\ UNCHANGED <<iata_input, city_input, continent_select, data_consistent,
                   evaluation_df, selected_aircraft, event, all_data_rows,
                   csv_result, oracle_log, eval_query>>

---------------------------------------------------------------------------
(* The user: every widget change or button press starts a script run *)

\* what the user types: a field, once filled, is changed but not cleared
IataCodes  == {"HKT", "LHR"}
CityNames  == {"Phuket", "London"}
Continents == {"Asia"}

\* a new script run: the page is drawn again from the top
StartRun(e) ==
    /\ pc' = "check"
    /\ event' = e
    /\ distance' = 0
    /\ all_data_rows' = <<>>
    /\ csv_result' = NoTable
    /\ oracle_log' = <<>>
    /\ render_error' = "none"

EditIata ==
    /\ pc = "idle"
    /\ \E v \in IataCodes \ {iata_input} : iata_input' = v
    /\ StartRun("edit")
    /\ UNCHANGED <<city_input, continent_select, aircraft_select_current, session,
                   display, available_aircraft, eval_query>>

EditCity ==
    /\ pc = "idle"
    /\ \E v \in CityNames \ {city_input} : city_input' = v
    /\ StartRun("edit")
    /\ UNCHANGED <<iata_input, continent_select, aircraft_select_current, session,
                   display, available_aircraft, eval_query>>

EditContinent ==
    /\ pc = "idle"
    /\ \E v \in Continents \ {continent_select} : continent_select' = v
    /\ StartRun("edit")
    /\ UNCHANGED <<iata_input, city_input, aircraft_select_current, session,
                   display, available_aircraft, eval_query>>

ChooseAircraft ==
    /\ pc = "idle"
    /\ available_aircraft # <<>>
    /\ \E v \in Options(available_aircraft) \ {aircraft_select_current} :
          aircraft_select_current' = v
    /\ StartRun("edit")
    /\ UNCHANGED <<iata_input, city_input, continent_select, session,
                   display, available_aircraft, eval_query>>

\* disabled=not is_gemini_ready or not (iata_code and city_name and continent)
PressCheck ==
    /\ pc = "idle"
    /\ iata_input # "" /\ city_input # "" /\ continent_select # ""
    /\ StartRun("check")
    /\ UNCHANGED <<widgets, session, display, available_aircraft, eval_query>>

\* disabled=not aircraft_selection
PressConfirm ==
    /\ pc = "idle"
    /\ available_aircraft # <<>>
    /\ aircraft_select_current # EmptyChoice
    /\ StartRun("confirm")
    /\ UNCHANGED <<widgets, session, display, available_aircraft, eval_query>>

---------------------------------------------------------------------------
(* Specifications *)

\* the session: a fresh page, any sequence of edits, presses and re-renders
Init ==
    /\ iata_input = "" /\ city_input = "" /\ continent_select = ""
    /\ aircraft_select_current = EmptyChoice
    /\ data_consistent = FALSE
    /\ distance_km = 0
    /\ evaluation_df = NoTable
    /\ selected_aircraft = NoneCell
    /\ pc = "idle" /\ event = "none"
    /\ distance = 0
    /\ all_data_rows = <<>>
    /\ csv_result = NoTable
    /\ display = <<>> /\ available_aircraft = <<>> /\ render_error = "none"
    /\ oracle_log = <<>>
    /\ eval_query = NoQuery

\* the answers the oracle gives in the session specification
SessionDeviations(model) ==
    {ListResponse(WellFormed(model, FloatCell(0))), NotJsonResponse}

MaxSessionDeviations == 1

Next ==
    \/ EditIata \/ EditCity \/ EditContinent \/ ChooseAircraft
    \/ PressCheck \/ PressConfirm
    \/ ScriptCheck \/ ScriptDistance
    \/ EvalStep([m \in DOMAIN AIRCRAFT_DATA |-> SessionDeviations(m)],
                MaxSessionDeviations)
    \/ EvalReturn \/ ReadTable \/ Render \/ Summary

Spec == Init /\ [][Next]_vars

\* one table build and its rendering, for every distance around the ranges
EvalDistances == {r + d : r \in Ranges, d \in 0..DistanceSlack}

InitEval ==
    /\ iata_input = "HKT" /\ city_input = "Phuket" /\ continent_select = "Asia"
    /\ aircraft_select_current = EmptyChoice
    /\ data_consistent = TRUE
    /\ distance \in EvalDistances
    /\ distance_km = distance
    /\ evaluation_df = NoTable
    /\ selected_aircraft = NoneCell
    /\ pc = "eval" /\ event = "check"
    /\ all_data_rows = <<>>
    /\ csv_result = NoTable
    /\ display = <<>> /\ available_aircraft = <<>> /\ render_error = "none"
    /\ oracle_log = <<>>
    /\ eval_query = NoQuery

NextEval ==
    \/ EvalStep([m \in DOMAIN AIRCRAFT_DATA |-> Deviations(m)], MaxDeviations)
    \/ EvalReturn \/ ReadTable \/ Render \/ Summary

SpecEval == InitEval /\ [][NextEval]_vars

---------------------------------------------------------------------------
(* Properties *)

Models == 1..Len(aircraft_models)
RangeOf(i) == AIRCRAFT_DATA[aircraft_models[i]].range_km

\* the oracle calls of the current build made for catalog entry i
CallsFor(i) == {k \in 1..Len(oracle_log) : oracle_log[k].model = aircraft_models[i]}

\* the oracle's response for catalog entry i was not an 11-element JSON list
Malformed(resp) ==
    \/ resp.kind \in {"not_json", "object", "number"}
    \/ resp.kind = "list" /\ Len(resp.items) # 11

\* C1: an aircraft whose range is below the distance gets the fixed unreachable
\* record (score 0.0, frequency 0, load and departure fields not applicable)
\* and no oracle call; an aircraft whose range is at least the distance (equal
\* included) gets exactly one oracle call.
C1_RangeShortCircuit ==
    \A i \in 1..Len(all_data_rows) :
        LET row == all_data_rows[i] IN
        /\ RangeOf(i) < distance =>
              /\ CallsFor(i) = {}
              /\ Len(row) = 11
              /\ row[1] = StrCell(aircraft_models[i])
              /\ row[5] = StrCell("N/A/N/A") /\ row[6] = StrCell("N/A/N/A")
              /\ row[7] = IntCell(0)
              /\ row[8] = StrCell("N/A") /\ row[9] = StrCell("N/A")
              /\ row[10] = FloatCell(0)
        /\ RangeOf(i) >= distance => Cardinality(CallsFor(i)) = 1

\* a finished build at a distance equal to one aircraft's range and above another's
C1_Witness ==
    /\ pc = "eval_return"
    /\ \E i, j \in Models :
          /\ RangeOf(i) = distance /\ Cardinality(CallsFor(i)) = 1
          /\ RangeOf(j) < distance /\ all_data_rows[j][10] = FloatCell(0)

\* C2 (as claimed): one malformed response among the seven still gives an
\* accepted 7-row table in which exactly one row is the fallback row.
C2_OneMalformedRowKeepsTable ==
    (/\ pc = "render"
     /\ Cardinality({k \in 1..Len(oracle_log) : Malformed(oracle_log[k].resp)}) = 1
     /\ \A k \in 1..Len(oracle_log) : oracle_log[k].resp.kind # "api_error")
    => /\ evaluation_df # NoTable
       /\ Len(evaluation_df) = 7
       /\ Cardinality({i \in 1..Len(evaluation_df) :
                          evaluation_df[i][11].txt \in
                              {"structure_incorrect", "api_call_error"}}) = 1

\* C3 (as claimed): a transport error in any per-aircraft call makes
\* get_aircraft_evaluation return a table-level failure, not a table.
C3_ApiErrorAbortsBuild ==
    (/\ pc = "read"
     /\ \E k \in 1..Len(oracle_log) : oracle_log[k].resp.kind = "api_error")
    => (csv_result = NoTable \/ StartsWithApiError(csv_result))

\* C4 (as claimed): every record has exactly 11 fields; the fallback record
\* has the identifier in field 1, "N/A" in fields 2-9, the score 1.0 in field
\* 10 and the diagnostic in field 11.
C4_ElevenFields ==
    \A i \in 1..Len(all_data_rows) :
        LET row == all_data_rows[i] IN
        /\ Len(row) = 11
        /\ (\E k \in CallsFor(i) :
               Malformed(oracle_log[k].resp) \/ oracle_log[k].resp.kind = "api_error")
           => /\ row[1] = StrCell(aircraft_models[i])
              /\ \A j \in 2..9 : row[j] = StrCell("N/A")
              /\ row[10] = FloatCell(100)
              /\ row[11].txt \in {"structure_incorrect", "api_call_error"}

\* the oracle's answer for catalog entry i was accepted as its record
Accepted(i) ==
    \E k \in CallsFor(i) :
        oracle_log[k].resp.kind = "list" /\ Len(oracle_log[k].resp.items) = 11

AcceptedItems(i) ==
    oracle_log[CHOOSE k \in CallsFor(i) : TRUE].resp.items

\* C5: a built table has seven rows and row i is the record of catalog entry
\* i: the oracle's answer for that aircraft when it was accepted, otherwise
\* an unreachable or fallback record carrying that aircraft's identifier.
C5_RowsInCatalogOrder ==
    pc = "read" =>
        /\ Len(csv_result) = 7
        /\ \A i \in Models :
              IF Accepted(i)
              THEN \A j \in 1..11 : csv_result[i][j] = CsvField(AcceptedItems(i)[j])
              ELSE csv_result[i][1] = StrCell(aircraft_models[i])

\* a built table holding an unreachable, an oracle and a fallback record
C5_Witness ==
    /\ pc = "read"
    /\ Len(csv_result) = 7
    /\ \E i, j, k \in Models :
          /\ RangeOf(i) < distance
          /\ Accepted(j)
          /\ RangeOf(k) >= distance /\ ~Accepted(k)

\* C6 (as claimed): in an accepted table a record has score 0.0 exactly when
\* the aircraft's range is below the distance; a reachable aircraft has a
\* strictly positive score.
C6_ZeroScoreIffUnreachable ==
    evaluation_df # NoTable =>
        \A i \in 1..Len(evaluation_df) :
            LET c == evaluation_df[i][ScoreCol] IN
            /\ RangeOf(i) < eval_query.distance =>
                  c.kind \in {"int", "float"} /\ Hundredths(c) = 0
            /\ RangeOf(i) >= eval_query.distance =>
                  c.kind \in {"int", "float"} /\ Hundredths(c) > 0

AllScoresNumeric(df) ==
    \A i \in 1..Len(df) : df[i][ScoreCol].kind \in {"int", "float"}

PositiveRows(df) == {i \in 1..Len(df) : Hundredths(df[i][ScoreCol]) > 0}

\* the k-th smallest member of a set of row numbers
KthOf(S, k) == CHOOSE i \in S : Cardinality({j \in S : j < i}) = k - 1

\* C7: when every score of the table is a number, the selection list is
\* exactly the identifiers of the rows with score > 0.0, in table order.
C7_SelectionIsPositiveScores ==
    (pc = "summary" /\ evaluation_df # NoTable /\ AllScoresNumeric(evaluation_df))
    => /\ Len(available_aircraft) = Cardinality(PositiveRows(evaluation_df))
       /\ \A k \in 1..Len(available_aircraft) :
             available_aircraft[k] =
                 evaluation_df[KthOf(PositiveRows(evaluation_df), k)][IdCol]

\* four consecutive rows with scores 0.0, 2.0, 0.0, 4.5: the 2nd and the 4th
\* of them are offered, the 1st and the 3rd are not
C7_Witness ==
    /\ pc = "summary" /\ evaluation_df # NoTable
    /\ AllScoresNumeric(evaluation_df)
    /\ \E i \in 1..4 :
          /\ Hundredths(evaluation_df[i][ScoreCol]) = 0
          /\ Hundredths(evaluation_df[i + 1][ScoreCol]) = 200
          /\ Hundredths(evaluation_df[i + 2][ScoreCol]) = 0
          /\ Hundredths(evaluation_df[i + 3][ScoreCol]) = 450
          /\ \A d \in 0..3 :
                (evaluation_df[i + d][IdCol] \in
                    {available_aircraft[k] : k \in 1..Len(available_aircraft)})
                <=> d \in {1, 3}

\* a score cell of the table that is no number: a text, or a missing value
Unparseable(c) == c.kind \in {"str", "nan"}

\* C8 (as claimed): when some score of the table is unparseable (a text or a
\* missing value) the filter yields the identifier of every row, in order.
C8_UnparseableScoreOffersAll ==
    (evaluation_df # NoTable
       /\ \E i \in 1..Len(evaluation_df) : Unparseable(evaluation_df[i][ScoreCol]))
    => available_aircraft_of(evaluation_df) =
           [i \in 1..Len(evaluation_df) |-> evaluation_df[i][IdCol]]

\* the stated rule for one score cell c and what format_star showed for it
FollowsRule(c, shown) ==
    IF Unparseable(c) THEN shown.kind = "N/A"
    ELSE IF Hundredths(c) = 0 THEN shown.kind = "unreachable"
    ELSE Hundredths(c) > 0 =>
           /\ shown.kind = "stars"
           /\ shown.full * 100 <= Hundredths(c)
           /\ Hundredths(c) < (shown.full + 1) * 100
           /\ shown.half <=> (Hundredths(c) - shown.full * 100 >= 25
                              /\ Hundredths(c) - shown.full * 100 < 75)
           /\ shown.tenths * 10 - Hundredths(c) \in -5..5

\* C9 (as claimed): format_star follows the rule on every score cell a table
\* holds, and never raises.
C9_FormatStarRule ==
    evaluation_df # NoTable =>
        \A i \in 1..Len(evaluation_df) :
            FollowsRule(evaluation_df[i][ScoreCol],
                        format_star(AsStr(evaluation_df[i][ScoreCol])))

\* the rule holds of format_star on every numeric score and every text
FormatStarOnNumbersAndText ==
    /\ \A h \in 0..(MaxScore * 100 + 99) :
          /\ FollowsRule(FloatCell(h), format_star(AsStr(FloatCell(h))))
          /\ FollowsRule(NumStrCell(h), format_star(AsStr(NumStrCell(h))))
    /\ \A n \in 0..MaxScore : FollowsRule(IntCell(n), format_star(AsStr(IntCell(n))))
    /\ FollowsRule(StrCell("high"), format_star(AsStr(StrCell("high"))))

\* C10 (as claimed): the table on the page was built for the destination and
\* the distance now entered and displayed.
C10_TableMatchesQuery ==
    (pc = "idle" /\ evaluation_df # NoTable /\ display # <<>>)
    => /\ eval_query.code = iata_input
       /\ eval_query.city = city_input
       /\ eval_query.distance = distance_km

\* row i of the table was offered in the selection list: its score is above
\* 0.0, or some score is a text and the filter offers every row
Offered(df, i) ==
    \/ df[i][ScoreCol].kind \in {"int", "float", "numstr"}
         /\ Hundredths(df[i][ScoreCol]) > 0
    \/ \E j \in 1..Len(df) : df[j][ScoreCol].kind = "str"

\* C11: whenever selected_aircraft is set, a table is present, data_consistent
\* holds, distance_km > 0 and the selection is the identifier of a row of that
\* table that the selection list offered; right after the check button's
\* handler distance_km, evaluation_df and selected_aircraft are cleared
\* together and data_consistent holds only the fresh verdict.
C11_SelectionWithinTable ==
    /\ selected_aircraft # NoneCell =>
          /\ evaluation_df # NoTable
          /\ data_consistent
          /\ distance_km > 0
          /\ selected_aircraft # EmptyChoice
          /\ \E i \in 1..Len(evaluation_df) :
                /\ evaluation_df[i][IdCol] = selected_aircraft
                /\ Offered(evaluation_df, i)
    /\ (pc = "distance" /\ event = "check") =>
          /\ distance_km = 0
          /\ evaluation_df = NoTable
          /\ selected_aircraft = NoneCell
    /\ evaluation_df # NoTable => data_consistent /\ distance_km > 0

\* a confirmed selection on a page whose table also holds a row that was not
\* offered
C11_Witness ==
    /\ pc = "idle"
    /\ selected_aircraft # NoneCell
    /\ \E i \in 1..Len(evaluation_df) : ~Offered(evaluation_df, i)

\* the check button pressed while a selection and its table are held
C11_ResetWitness ==
    /\ pc = "check" /\ event = "check"
    /\ selected_aircraft # NoneCell
    /\ evaluation_df # NoTable

====
